---- MODULE Spec2Model ----
(***************************************************************************)
(* Model of proj2_nps.py: a command loop that scrapes nps.gov site pages   *)
(* and queries the MapQuest radius search through a dictionary cache that  *)
(* is loaded from a JSON file at start-up and saved after every insertion. *)
(*                                                                         *)
(* Python values are represented as follows.                               *)
(*   str            a TLA+ string                                          *)
(*   dict (cache)   a function from keys to payloads                       *)
(*   dict (params)  a sequence of <<name, value>> pairs, in insertion      *)
(*                  order (the order params.keys() iterates in)            *)
(*   file           a record: exists, readable, content; content is the    *)
(*                  sequence of chunks the file holds, each chunk being    *)
(*                  one dumped JSON document, whitespace, or other text    *)
(*   HTML / JSON    records that carry what the selectors of the code      *)
(*                  read from the page                                     *)
(***************************************************************************)
EXTENDS Integers, Sequences, FiniteSets, TLC

VARIABLES
    pc,             \* position of the process in the script
    CACHE_DICT,     \* the module-level cache dictionary
    file,           \* the file CACHE_FILENAME on disk
    states_dict,    \* __main__: result of build_state_url_dict()
    instance_list,  \* __main__: result of the last get_sites_for_state()
    search_state,   \* __main__: the state name that was entered
    course_listing_divs, \* get_sites_for_state: the site URLs of the entries
    acc,            \* get_sites_for_state: its local instance_list so far
    out,            \* lines printed by the last step
    last,           \* observation of the last step (operation, key, requests)
    runs,           \* number of process starts so far
    call            \* a direct call of one function (function-level specifications)

vars == <<pc, CACHE_DICT, file, states_dict, instance_list, search_state,
          course_listing_divs, acc, out, last, runs, call>>

(***************************************************************************)
(* Bounds of the model.                                                    *)
(***************************************************************************)
MaxRuns == 2        \* process starts explored
MaxParams == 2      \* parameters of a directly built key
MaxResults == 2     \* items of a directly rendered searchResults array
MaxCalls == 3       \* direct calls of the page-fetching functions
MaxSites == 11      \* sites listed on the page of one state

(***************************************************************************)
(* Program constants.                                                      *)
(***************************************************************************)
CACHE_FILENAME == "national_park_cash.json"
API_key == "KEY"
INDEX_URL == "https://www.nps.gov/index.htm"
NPS == "https://www.nps.gov"
MAPQUEST_URL == "http://www.mapquestapi.com/search/v2/radius"
Radius == 10
MaxMatches == 10
ListLimit == 10

(***************************************************************************)
(* Payloads.  Every payload is a record, so that payloads of different     *)
(* kinds can be compared.                                                  *)
(***************************************************************************)
NoPayload == [kind |-> "none"]

EmptyDict == [k \in {} |-> NoPayload]

Put(d, k, v) == [x \in (DOMAIN d) \cup {k} |-> IF x = k THEN v ELSE d[x]]


(***************************************************************************)
(* String methods, on the strings that occur in the model.                 *)
(***************************************************************************)
\* lower() left out
lower_missing(s) == s

\* str.lower()
lower(s) ==
    CASE s \in {"Michigan", "MICHIGAN"} -> "michigan"
      [] s \in {"Ohio", "OHIO"} -> "ohio"
      [] s \in {"Exit", "EXIT", "eXiT"} -> "exit"
      [] s \in {"Back", "BACK"} -> "back"
      [] OTHER -> s

\* str.strip()
strip(s) ==
    CASE s = " Michigan " -> "Michigan"
      [] s = " Isle Royale " -> "Isle Royale"
      [] s = "49931 " -> "49931"
      [] s = " Calumet" -> "Calumet"
      [] OTHER -> s

\* int(s): the strings int() accepts, with their values
IntTable ==
    ("1" :> 1) @@ (" 2 " :> 2) @@ ("2" :> 2) @@ ("3" :> 3) @@ ("0" :> 0) @@
    ("-1" :> -1) @@ ("11" :> 11)

int(s) ==
    IF s \in DOMAIN IntTable
    THEN [exc |-> "", value |-> IntTable[s]]
    ELSE [exc |-> "ValueError", value |-> 0]

\* str(v) of a parameter value: a str is itself, an int is its decimal form
StrVal(s) == [t |-> "str", s |-> s, i |-> 0]
IntVal(i) == [t |-> "int", s |-> "", i |-> i]
str(v) == IF v.t = "int" THEN ToString(v.i) ELSE v.s

(***************************************************************************)
(* class NationalSite                                                      *)
(***************************************************************************)
NationalSite(category, name, address, zipcode, phone) ==
    [category |-> category, name |-> name, address |-> address,
     zipcode |-> zipcode, phone |-> phone]

NoSite == NationalSite("", "", "", "", "")

info(self) ==
    self.name \o " (" \o self.category \o "): " \o self.address \o " " \o self.zipcode

(***************************************************************************)
(* The cache file.  json.dumps of a dictionary is one document; the file   *)
(* is the concatenation of everything that was written to it.  json.loads  *)
(* accepts surrounding whitespace and exactly one document.                *)
(***************************************************************************)
Doc(d) == [tok |-> "doc", val |-> d]
Ws == [tok |-> "ws", val |-> EmptyDict]
Junk == [tok |-> "junk", val |-> EmptyDict]

NoFile == [exists |-> FALSE, readable |-> FALSE, content |-> <<>>]
FileOf(content) == [exists |-> TRUE, readable |-> TRUE, content |-> content]

json_dumps(d) == <<Doc(d)>>

json_loads(content) ==
    LET text == SelectSeq(content, LAMBDA c : c.tok # "ws")
    IN  IF Len(text) = 1 /\ text[1].tok = "doc"
        THEN [exc |-> "", value |-> text[1].val]
        ELSE [exc |-> "JSONDecodeError", value |-> EmptyDict]

\* lines 62-65: the body of the try block
read_cache_file(f) ==
    IF ~f.exists THEN [exc |-> "FileNotFoundError", value |-> EmptyDict]
    ELSE IF ~f.readable THEN [exc |-> "PermissionError", value |-> EmptyDict]
    ELSE json_loads(f.content)

\* open_cache without its try/except: the failure of the read propagates
open_cache_notry(f) == read_cache_file(f)

open_cache(f) ==
    LET r == read_cache_file(f)
    IN  IF r.exc # "" THEN [exc |-> "", value |-> EmptyDict]
        ELSE [exc |-> "", value |-> r.value]

\* open(CACHE_FILENAME, "a"): creates the file when missing, else writes at its end
save_cache(f, cache_dict) ==
    LET dumped_json_cache == json_dumps(cache_dict)
    IN  IF f.exists
        THEN [f EXCEPT !.content = f.content \o dumped_json_cache]
        ELSE FileOf(dumped_json_cache)

(***************************************************************************)
(* construct_unique_key                                                    *)
(***************************************************************************)
\* the loop without the "_" between a name and its value
RECURSIVE key_loop_nosep(_, _, _)
key_loop_nosep(uniq_key, params, i) ==
    IF i > Len(params) THEN uniq_key
    ELSE key_loop_nosep(uniq_key \o "_" \o params[i][1] \o str(params[i][2]),
                        params, i + 1)

RECURSIVE key_loop(_, _, _)
key_loop(uniq_key, params, i) ==
    IF i > Len(params) THEN uniq_key
    ELSE key_loop(uniq_key \o "_" \o params[i][1] \o "_" \o str(params[i][2]),
                  params, i + 1)

construct_unique_key(baseurl, params) == key_loop(baseurl, params, 1)

(***************************************************************************)
(* The two services.  A page is what the selectors of the code see in it;  *)
(* a request either raises (no connection) or returns one of the bodies    *)
(* the service can serve for that URL.                                     *)
(***************************************************************************)
MI_URL == NPS \o "/state/mi/index.htm"
OH_URL == NPS \o "/state/oh/index.htm"

\* nps.gov/index.htm: the <ul class="dropdown-menu SearchBar-keywordSearch">
\* and its <li><a href=...>text</a></li> children
IndexPage ==
    [kind |-> "html", page |-> "index", menu |-> TRUE,
     items |-> << [text |-> " Michigan ", href |-> "/state/mi/index.htm"],
                  [text |-> "Ohio", href |-> "/state/oh/index.htm"] >>]
IndexPageNoMenu ==
    [kind |-> "html", page |-> "index", menu |-> FALSE, items |-> <<>>]

\* a state page: the <ul id="list_parks"> and the href of each <li><h3><a>
StatePage(hrefs) ==
    [kind |-> "html", page |-> "state", list |-> TRUE, hrefs |-> hrefs]
StatePageNoList ==
    [kind |-> "html", page |-> "state", list |-> FALSE, hrefs |-> <<>>]

\* a site page: the elements that are present, and their texts
SiteElements == {"Hero-title", "Hero-designation", "addressLocality",
                 "addressRegion", "postal-code", "telephone"}

SitePage(has, title, designation, locality, region, postal, telephone) ==
    [kind |-> "html", page |-> "site", has |-> has, title |-> title,
     designation |-> designation, locality |-> locality, region |-> region,
     postal |-> postal, telephone |-> telephone]

ISRO_URL == NPS \o "/isro/" \o "index.htm"
KEWE_URL == NPS \o "/kewe/" \o "index.htm"

IsroPage == SitePage(SiteElements, " Isle Royale ", "National Park", "Houghton",
                     "MI", "49931 ", "906-482-0984")
IsroPageNoPhone == SitePage(SiteElements \ {"telephone"}, " Isle Royale ",
                     "National Park", "Houghton", "MI", "49931 ", "")
KewePage == SitePage(SiteElements, "Keweenaw", "", " Calumet", "MI", "49913",
                     "906-337-3168")

\* a search response: the decoded JSON object and its searchResults array
Item(name, address, city, category) ==
    [fields |-> [name |-> name, address |-> address, city |-> city,
                 group_sic_code_name_ext |-> category]]

SearchJson(results) ==
    [kind |-> "json", hasResults |-> TRUE, searchResults |-> results]
SearchJsonNoResults ==
    [kind |-> "json", hasResults |-> FALSE, searchResults |-> <<>>]
NotJson == [kind |-> "text"]

CafeX == Item("Cafe X", "", "Houghton", "Restaurant")
Dock == Item("", "1 Dock St", "", "")

Bodies(url) ==
    CASE url = INDEX_URL -> {IndexPage, IndexPageNoMenu}
      [] url = MI_URL -> {StatePage(<<"/isro/", "/kewe/">>), StatePageNoList}
      [] url = OH_URL -> {StatePage(<<>>)}
      [] url = ISRO_URL -> {IsroPage, IsroPageNoPhone}
      [] url = KEWE_URL -> {KewePage}
      [] OTHER -> {SearchJson(<<CafeX, Dock>>), SearchJsonNoResults, NotJson}

NetErr == [status |-> "neterr", body |-> NoPayload]
Ok(body) == [status |-> "ok", body |-> body]

\* the outcomes of requests.get(url)
Responses(url) == {NetErr} \cup {Ok(b) : b \in Bodies(url)}

(***************************************************************************)
(* The cached operations.  Each takes the cache dictionary, the file and   *)
(* the outcome r the network would give to a request, and returns          *)
(*   exc       the exception it raises ("" when it returns)                *)
(*   value     what it returns                                             *)
(*   cache, file   the dictionary and the file when it ends                *)
(*   key, hit  the cache key and whether it was present at the start       *)
(*   used      the payload it parsed or returned                           *)
(*   requests  the URLs it requested                                       *)
(*   printed   the lines it printed                                        *)
(***************************************************************************)
Outcome(exc, value, cache, f, key, hit, used, requests, printed) ==
    [exc |-> exc, value |-> value, cache |-> cache, file |-> f, key |-> key,
     hit |-> hit, used |-> used, requests |-> requests, printed |-> printed]

\* lines 121-127
RECURSIVE state_loop(_, _, _)
state_loop(state_dict, items, i) ==
    IF i > Len(items) THEN state_dict
    ELSE LET state_path == items[i].href
             state_name == lower(strip(items[i].text))
             each_state_url == NPS \o state_path
         IN  state_loop(Put(state_dict, state_name, each_state_url), items, i + 1)

NoStates == [k \in {} |-> ""]

build_state_url_dict(cache, f, r) ==
    LET base_url == INDEX_URL
        hit == base_url \in DOMAIN cache
    IN  IF ~hit /\ r.status = "neterr"
        THEN Outcome("ConnectionError", NoStates, cache, f, base_url, hit,
                     NoPayload, <<base_url>>, <<"Fetching">>)
        ELSE LET text == IF hit THEN cache[base_url] ELSE r.body
                 cache2 == IF hit THEN cache ELSE Put(cache, base_url, r.body)
                 f2 == IF hit THEN f ELSE save_cache(f, cache2)
                 reqs == IF hit THEN <<>> ELSE <<base_url>>
                 pr == IF hit THEN <<"Using Cache">> ELSE <<"Fetching">>
             IN  IF ~text.menu
                 THEN Outcome("AttributeError", NoStates, cache2, f2, base_url,
                              hit, text, reqs, pr)
                 ELSE Outcome("", state_loop(NoStates, text.items, 1), cache2, f2,
                              base_url, hit, text, reqs, pr)

\* site_of_page that takes a missing element for an empty text
site_of_page_lenient(soup) ==
    [exc |-> "",
     value |-> NationalSite(strip(soup.designation), strip(soup.title),
                            strip(soup.locality) \o ", " \o strip(soup.region),
                            strip(soup.postal), strip(soup.telephone))]

\* site_of_page without the strip() calls
site_of_page_nostrip(soup) ==
    IF SiteElements \subseteq soup.has
    THEN [exc |-> "",
          value |-> NationalSite(soup.designation, soup.title,
                                 soup.locality \o ", " \o soup.region,
                                 soup.postal, soup.telephone)]
    ELSE [exc |-> "AttributeError", value |-> NoSite]

\* lines 154-160
site_of_page(soup) ==
    IF SiteElements \subseteq soup.has
    THEN [exc |-> "",
          value |-> NationalSite(strip(soup.designation), strip(soup.title),
                                 strip(soup.locality) \o ", " \o strip(soup.region),
                                 strip(soup.postal), strip(soup.telephone))]
    ELSE [exc |-> "AttributeError", value |-> NoSite]

\* get_site_instance without the lookup of line 144: it always requests
get_site_instance_refetch(cache, f, site_url, r) ==
    IF r.status = "neterr"
    THEN Outcome("ConnectionError", NoSite, cache, f, site_url,
                 site_url \in DOMAIN cache, NoPayload, <<site_url>>, <<"Fetching">>)
    ELSE LET cache2 == Put(cache, site_url, r.body)
             site == site_of_page(r.body)
         IN  Outcome(site.exc, site.value, cache2, save_cache(f, cache2), site_url,
                     site_url \in DOMAIN cache, r.body, <<site_url>>, <<"Fetching">>)

\* get_site_instance that stores the page only after it was parsed
get_site_instance_parsefirst(cache, f, site_url, r) ==
    LET hit == site_url \in DOMAIN cache
    IN  IF ~hit /\ r.status = "neterr"
        THEN Outcome("ConnectionError", NoSite, cache, f, site_url, hit,
                     NoPayload, <<site_url>>, <<"Fetching">>)
        ELSE LET text == IF hit THEN cache[site_url] ELSE r.body
                 site == site_of_page(text)
                 store == ~hit /\ site.exc = ""
                 cache2 == IF store THEN Put(cache, site_url, r.body) ELSE cache
                 f2 == IF store THEN save_cache(f, cache2) ELSE f
                 reqs == IF hit THEN <<>> ELSE <<site_url>>
                 pr == IF hit THEN <<"Using Cache">> ELSE <<"Fetching">>
             IN  Outcome(site.exc, site.value, cache2, f2, site_url, hit, text,
                         reqs, pr)

\* get_site_instance that stores the page in a dictionary of its own
get_site_instance_evict(cache, f, site_url, r) ==
    LET hit == site_url \in DOMAIN cache
    IN  IF ~hit /\ r.status = "neterr"
        THEN Outcome("ConnectionError", NoSite, cache, f, site_url, hit,
                     NoPayload, <<site_url>>, <<"Fetching">>)
        ELSE LET text == IF hit THEN cache[site_url] ELSE r.body
                 cache2 == IF hit THEN cache ELSE Put(EmptyDict, site_url, r.body)
                 f2 == IF hit THEN f ELSE save_cache(f, cache2)
                 site == site_of_page(text)
                 reqs == IF hit THEN <<>> ELSE <<site_url>>
                 pr == IF hit THEN <<"Using Cache">> ELSE <<"Fetching">>
             IN  Outcome(site.exc, site.value, cache2, f2, site_url, hit, text,
                         reqs, pr)

get_site_instance(cache, f, site_url, r) ==
    LET hit == site_url \in DOMAIN cache
    IN  IF ~hit /\ r.status = "neterr"
        THEN Outcome("ConnectionError", NoSite, cache, f, site_url, hit,
                     NoPayload, <<site_url>>, <<"Fetching">>)
        ELSE LET text == IF hit THEN cache[site_url] ELSE r.body
                 cache2 == IF hit THEN cache ELSE Put(cache, site_url, r.body)
                 f2 == IF hit THEN f ELSE save_cache(f, cache2)
                 reqs == IF hit THEN <<>> ELSE <<site_url>>
                 pr == IF hit THEN <<"Using Cache">> ELSE <<"Fetching">>
                 site == site_of_page(text)
             IN  Outcome(site.exc, site.value, cache2, f2, site_url, hit, text,
                         reqs, pr)

\* lines 204-211
nearby_params(site_object) ==
    << <<"key", StrVal(API_key)>>, <<"origin", StrVal(site_object.zipcode)>>,
       <<"radius", IntVal(Radius)>>, <<"maxMatches", IntVal(MaxMatches)>>,
       <<"ambiguities", StrVal("ignore")>>, <<"outFormat", StrVal("json")>> >>

\* get_nearby_places without the assignment of line 219
get_nearby_places_nostore(cache, f, site_object, r) ==
    LET baseurl == MAPQUEST_URL
        uniq_key == construct_unique_key(baseurl, nearby_params(site_object))
        hit == uniq_key \in DOMAIN cache
    IN  IF hit
        THEN Outcome("", cache[uniq_key], cache, f, uniq_key, hit,
                     cache[uniq_key], <<>>, <<"Using Cache">>)
        ELSE IF r.status = "neterr"
        THEN Outcome("ConnectionError", NoPayload, cache, f, uniq_key, hit,
                     NoPayload, <<baseurl>>, <<"Fetching">>)
        ELSE IF r.body.kind # "json"
        THEN Outcome("ValueError", NoPayload, cache, f, uniq_key, hit,
                     NoPayload, <<baseurl>>, <<"Fetching">>)
        ELSE Outcome("", r.body, cache, save_cache(f, cache), uniq_key,
                     hit, r.body, <<baseurl>>, <<"Fetching">>)

\* get_nearby_places that asks a second time when the request raises
get_nearby_places_retry(cache, f, site_object, r) ==
    LET baseurl == MAPQUEST_URL
        uniq_key == construct_unique_key(baseurl, nearby_params(site_object))
        hit == uniq_key \in DOMAIN cache
    IN  IF hit
        THEN Outcome("", cache[uniq_key], cache, f, uniq_key, hit,
                     cache[uniq_key], <<>>, <<"Using Cache">>)
        ELSE IF r.status = "neterr"
        THEN Outcome("ConnectionError", NoPayload, cache, f, uniq_key, hit,
                     NoPayload, <<baseurl, baseurl>>, <<"Fetching">>)
        ELSE IF r.body.kind # "json"
        THEN Outcome("ValueError", NoPayload, cache, f, uniq_key, hit,
                     NoPayload, <<baseurl, baseurl>>, <<"Fetching">>)
        ELSE LET cache2 == Put(cache, uniq_key, r.body)
             IN  Outcome("", r.body, cache2, save_cache(f, cache2), uniq_key,
                         hit, r.body, <<baseurl>>, <<"Fetching">>)

get_nearby_places(cache, f, site_object, r) ==
    LET baseurl == MAPQUEST_URL
        uniq_key == construct_unique_key(baseurl, nearby_params(site_object))
        hit == uniq_key \in DOMAIN cache
    IN  IF hit
        THEN Outcome("", cache[uniq_key], cache, f, uniq_key, hit,
                     cache[uniq_key], <<>>, <<"Using Cache">>)
        ELSE IF r.status = "neterr"
        THEN Outcome("ConnectionError", NoPayload, cache, f, uniq_key, hit,
                     NoPayload, <<baseurl>>, <<"Fetching">>)
        ELSE IF r.body.kind # "json"    \* .json() raises JSONDecodeError
        THEN Outcome("ValueError", NoPayload, cache, f, uniq_key, hit,
                     NoPayload, <<baseurl>>, <<"Fetching">>)
        ELSE LET cache2 == Put(cache, uniq_key, r.body)
             IN  Outcome("", r.body, cache2, save_cache(f, cache2), uniq_key,
                         hit, r.body, <<baseurl>>, <<"Fetching">>)

\* place_info with a placeholder for the name as well
place_info_noname(nearby_place) ==
    LET flds == nearby_place.fields
        name == IF flds.name = "" THEN "no name" ELSE flds.name
        address == IF flds.address = "" THEN "no address" ELSE flds.address
        city == IF flds.city = "" THEN "no city" ELSE flds.city
        category == IF flds.group_sic_code_name_ext = "" THEN "no category"
                    ELSE flds.group_sic_code_name_ext
    IN  "- " \o name \o " (" \o category \o "): " \o address \o ", " \o city

\* lines 245-256: one item of the loop of print_nearby_places
place_info(nearby_place) ==
    LET flds == nearby_place.fields
        name == flds.name
        address == IF flds.address = "" THEN "no address" ELSE flds.address
        city == IF flds.city = "" THEN "no city" ELSE flds.city
        category == IF flds.group_sic_code_name_ext = "" THEN "no category"
                    ELSE flds.group_sic_code_name_ext
    IN  "- " \o name \o " (" \o category \o "): " \o address \o ", " \o city

\* lines 241-257
RECURSIVE places_loop(_, _, _)
places_loop(lines, nearby_places_list, i) ==
    IF i > Len(nearby_places_list) THEN lines
    ELSE places_loop(Append(lines, place_info(nearby_places_list[i])),
                     nearby_places_list, i + 1)

nearby_lines(site_object, nearby_places_list) ==
    places_loop(<<"---------------", "Places near " \o site_object.name,
                  "---------------">>, nearby_places_list, 1)

print_nearby_places(cache, f, site_object, r) ==
    LET g == get_nearby_places(cache, f, site_object, r)
    IN  IF g.exc # "" THEN g
        ELSE IF ~g.value.hasResults
        THEN [g EXCEPT !.exc = "KeyError"]
        ELSE [g EXCEPT !.printed =
                  g.printed \o nearby_lines(site_object, g.value.searchResults)]

\* lines 176-184: the state page is requested, never looked up in the cache
site_urls(hrefs) ==
    [i \in 1..Len(hrefs) |-> NPS \o hrefs[i] \o "index.htm"]

\* get_sites_for_state with the state page read through the cache, the way
\* the index page and the site pages are
sites_page_cached(cache, f, state_url, r) ==
    LET hit == state_url \in DOMAIN cache
    IN  IF ~hit /\ r.status = "neterr"
        THEN Outcome("ConnectionError", <<>>, cache, f, state_url, hit,
                     NoPayload, <<state_url>>, <<>>)
        ELSE LET text == IF hit THEN cache[state_url] ELSE r.body
                 cache2 == IF hit THEN cache ELSE Put(cache, state_url, r.body)
                 f2 == IF hit THEN f ELSE save_cache(f, cache2)
                 reqs == IF hit THEN <<>> ELSE <<state_url>>
             IN  Outcome(IF text.list THEN "" ELSE "AttributeError",
                         IF text.list THEN site_urls(text.hrefs) ELSE <<>>,
                         cache2, f2, state_url, hit, text, reqs, <<>>)

\* the dictionary and the file are passed through untouched
sites_page(cache, f, state_url, r) ==
    IF r.status = "neterr"
    THEN Outcome("ConnectionError", <<>>, cache, f, state_url, FALSE,
                 NoPayload, <<state_url>>, <<>>)
    ELSE IF ~r.body.list
    THEN Outcome("AttributeError", <<>>, cache, f, state_url, FALSE, r.body,
                 <<state_url>>, <<>>)
    ELSE Outcome("", site_urls(r.body.hrefs), cache, f, state_url, FALSE,
                 r.body, <<state_url>>, <<>>)

\* lines 270-275
RECURSIVE list_loop(_, _, _)
list_loop(lines, sites, index) ==
    IF index >= Len(sites) THEN lines
    ELSE list_loop(Append(lines, "[" \o ToString(index + 1) \o "] "
                                     \o info(sites[index + 1])),
                   sites, index + 1)

list_lines(state_name, sites) ==
    list_loop(<<"-------------------",
                "List of national sites in " \o state_name,
                "-------------------">>,
              SubSeq(sites, 1, IF Len(sites) < ListLimit THEN Len(sites) ELSE ListLimit),
              0)

(***************************************************************************)
(* The process.  pc is                                                     *)
(*   "start"         before line 263                                       *)
(*   "build"         before line 264                                       *)
(*   "state_prompt"  at the input() of line 266                            *)
(*   "sites"         in the loop of get_sites_for_state (lines 182-185)    *)
(*   "num_prompt"    at the input() of line 278                            *)
(*   "exited"        after sys.exit(0)                                     *)
(*   "crashed"       after an exception nothing caught                     *)
(***************************************************************************)
Inputs == {"Michigan", "OHIO", "texas", "exit", "EXIT", "Back", "1", " 2 ",
           "3", "11", "abc"}

InitFiles == {NoFile, FileOf(<<Junk>>),
              [exists |-> TRUE, readable |-> FALSE, content |-> <<>>]}

\* what a step leaves in last
NoResp == [status |-> "none", body |-> NoPayload]

\* resp is what the network answered to the request of the step, if it made one
Obs(op, input, exc, key, hit, used, requests, r) ==
    [op |-> op, input |-> input, exc |-> exc, key |-> key, hit |-> hit,
     used |-> used, requests |-> requests,
     resp |-> IF requests = <<>> THEN NoResp ELSE r]

ObsOf(op, input, o, r) ==
    Obs(op, input, o.exc, o.key, o.hit, o.used, o.requests, r)

Plain(op, input, exc) == Obs(op, input, exc, "", FALSE, NoPayload, <<>>, NoResp)

NoCall == [fn |-> "none"]

Init ==
    /\ pc = "start"
    /\ CACHE_DICT = EmptyDict
    /\ file \in InitFiles
    /\ states_dict = NoStates
    /\ instance_list = <<>>
    /\ search_state = ""
    /\ course_listing_divs = <<>>
    /\ acc = <<>>
    /\ out = <<>>
    /\ last = Plain("none", "", "")
    /\ runs = 1
    /\ call = NoCall

\* line 263
OpenCache ==
    /\ pc = "start"
    /\ LET r == open_cache(file)
       IN  /\ pc' = IF r.exc = "" THEN "build" ELSE "crashed"
           /\ CACHE_DICT' = IF r.exc = "" THEN r.value ELSE CACHE_DICT
           /\ last' = Plain("open_cache", "", r.exc)
    /\ out' = <<>>
    /\ UNCHANGED <<file, states_dict, instance_list, search_state,
                   course_listing_divs, acc, runs, call>>

\* line 264
BuildStateUrlDict ==
    /\ pc = "build"
    /\ \E r \in Responses(INDEX_URL) :
         LET o == build_state_url_dict(CACHE_DICT, file, r)
         IN  /\ CACHE_DICT' = o.cache
             /\ file' = o.file
             /\ out' = o.printed
             /\ last' = ObsOf("build_state_url_dict", "", o, r)
             /\ states_dict' = IF o.exc = "" THEN o.value ELSE states_dict
             /\ pc' = IF o.exc = "" THEN "state_prompt" ELSE "crashed"
    /\ UNCHANGED <<instance_list, search_state, course_listing_divs, acc,
                   runs, call>>

\* lines 266-269 and 176-181: a state of states_dict is entered
EnterState ==
    /\ pc = "state_prompt"
    /\ \E s \in Inputs :
         /\ lower(s) \in DOMAIN states_dict
         /\ \E r \in Responses(states_dict[lower(s)]) :
              LET state_url == states_dict[lower(s)]
                  pg == sites_page(CACHE_DICT, file, state_url, r)
              IN  /\ search_state' = s
                  /\ CACHE_DICT' = pg.cache
                  /\ file' = pg.file
                  /\ last' = ObsOf("get_sites_for_state", s, pg, r)
                  /\ course_listing_divs' = pg.value
                  /\ acc' = <<>>
                  /\ pc' = IF pg.exc = "" THEN "sites" ELSE "crashed"
    /\ out' = <<>>
    /\ UNCHANGED <<states_dict, instance_list, runs, call>>

\* lines 294-295
ExitAtState ==
    /\ pc = "state_prompt"
    /\ \E s \in Inputs :
         /\ lower(s) \notin DOMAIN states_dict
         /\ lower(s) = "exit"
         /\ search_state' = s
         /\ last' = Plain("exit", s, "")
    /\ pc' = "exited"
    /\ out' = <<>>
    /\ UNCHANGED <<CACHE_DICT, file, states_dict, instance_list,
                   course_listing_divs, acc, runs, call>>

\* lines 296-297
UnknownState ==
    /\ pc = "state_prompt"
    /\ \E s \in Inputs :
         /\ lower(s) \notin DOMAIN states_dict
         /\ lower(s) # "exit"
         /\ search_state' = s
         /\ last' = Plain("unknown_state", s, "")
    /\ out' = <<"[Error] Enter proper state name">>
    /\ UNCHANGED <<pc, CACHE_DICT, file, states_dict, instance_list,
                   course_listing_divs, acc, runs, call>>

\* lines 182-185: one iteration of the loop of get_sites_for_state
SiteStep ==
    /\ pc = "sites"
    /\ Len(acc) < Len(course_listing_divs)
    /\ \E r \in Responses(course_listing_divs[Len(acc) + 1]) :
         LET site_url == course_listing_divs[Len(acc) + 1]
             o == get_site_instance(CACHE_DICT, file, site_url, r)
         IN  /\ CACHE_DICT' = o.cache
             /\ file' = o.file
             /\ out' = o.printed
             /\ last' = ObsOf("get_site_instance", "", o, r)
             /\ acc' = IF o.exc = "" THEN Append(acc, o.value) ELSE acc
             /\ pc' = IF o.exc = "" THEN "sites" ELSE "crashed"
    /\ UNCHANGED <<states_dict, instance_list, search_state,
                   course_listing_divs, runs, call>>

\* lines 186 and 269-275: the list is returned, assigned and printed
ReturnSites ==
    /\ pc = "sites"
    /\ Len(acc) = Len(course_listing_divs)
    /\ instance_list' = acc
    /\ out' = list_lines(search_state, acc)
    /\ last' = Plain("return_sites", "", "")
    /\ pc' = "num_prompt"
    /\ UNCHANGED <<CACHE_DICT, file, states_dict, search_state,
                   course_listing_divs, acc, runs, call>>

\* lines 279-280
ExitAtNum ==
    /\ pc = "num_prompt"
    /\ \E enter_num \in Inputs :
         /\ lower(enter_num) = "exit"
         /\ last' = Plain("exit", enter_num, "")
    /\ pc' = "exited"
    /\ out' = <<>>
    /\ UNCHANGED <<CACHE_DICT, file, states_dict, instance_list, search_state,
                   course_listing_divs, acc, runs, call>>

\* lines 281-282
Back ==
    /\ pc = "num_prompt"
    /\ \E enter_num \in Inputs :
         /\ lower(enter_num) = "back"
         /\ last' = Plain("back", enter_num, "")
    /\ pc' = "state_prompt"
    /\ out' = <<>>
    /\ UNCHANGED <<CACHE_DICT, file, states_dict, instance_list, search_state,
                   course_listing_divs, acc, runs, call>>

\* lines 283-284 and 292-293: int() raises ValueError
NotANumber ==
    /\ pc = "num_prompt"
    /\ \E enter_num \in Inputs :
         /\ lower(enter_num) \notin {"exit", "back"}
         /\ int(enter_num).exc = "ValueError"
         /\ last' = Plain("not_a_number", enter_num, "")
    /\ out' = <<"[Error] Invalid input">>
    /\ UNCHANGED <<pc, CACHE_DICT, file, states_dict, instance_list,
                   search_state, course_listing_divs, acc, runs, call>>

\* lines 285 and 290-291
OutOfRange ==
    /\ pc = "num_prompt"
    /\ \E enter_num \in Inputs :
         /\ lower(enter_num) \notin {"exit", "back"}
         /\ int(enter_num).exc = ""
         /\ ~(1 <= int(enter_num).value /\ int(enter_num).value <= Len(instance_list))
         /\ last' = Plain("out_of_range", enter_num, "")
    /\ out' = <<"[Error] Invalid input">>
    /\ UNCHANGED <<pc, CACHE_DICT, file, states_dict, instance_list,
                   search_state, course_listing_divs, acc, runs, call>>

\* lines 285-289 and 292-293: a listed number; the ValueError of an undecodable
\* search response is caught by the except clause of line 292
Select ==
    /\ pc = "num_prompt"
    /\ \E enter_num \in Inputs :
         /\ lower(enter_num) \notin {"exit", "back"}
         /\ int(enter_num).exc = ""
         /\ 1 <= int(enter_num).value
         /\ int(enter_num).value <= Len(instance_list)
         /\ LET site_object == instance_list[int(enter_num).value]
            IN  \E r \in Responses(construct_unique_key(MAPQUEST_URL,
                                       nearby_params(site_object))) :
                  LET o == print_nearby_places(CACHE_DICT, file, site_object, r)
                  IN  /\ CACHE_DICT' = o.cache
                      /\ file' = o.file
                      /\ last' = ObsOf("get_nearby_places", enter_num, o, r)
                      /\ out' = IF o.exc = "ValueError"
                                THEN o.printed \o <<"[Error] Invalid input">>
                                ELSE o.printed
                      /\ pc' = IF o.exc \in {"", "ValueError"} THEN "num_prompt"
                               ELSE "crashed"
    /\ UNCHANGED <<states_dict, instance_list, search_state,
                   course_listing_divs, acc, runs, call>>

\* the script is run again: lines 13-14 and the file as the last run left it
Restart ==
    /\ pc \in {"exited", "crashed"}
    /\ runs < MaxRuns
    /\ pc' = "start"
    /\ CACHE_DICT' = EmptyDict
    /\ states_dict' = NoStates
    /\ instance_list' = <<>>
    /\ search_state' = ""
    /\ course_listing_divs' = <<>>
    /\ acc' = <<>>
    /\ out' = <<>>
    /\ last' = Plain("none", "", "")
    /\ runs' = runs + 1
    /\ UNCHANGED <<file, call>>

Next ==
    \/ OpenCache
    \/ BuildStateUrlDict
    \/ EnterState
    \/ ExitAtState
    \/ UnknownState
    \/ SiteStep
    \/ ReturnSites
    \/ ExitAtNum
    \/ Back
    \/ NotANumber
    \/ OutOfRange
    \/ Select
    \/ Restart

Spec == Init /\ [][Next]_vars

(***************************************************************************)
(* Function-level specifications: one function is called directly, on      *)
(* arguments drawn from bounded sets.  The process itself stays idle.      *)
(***************************************************************************)
IdleProcess ==
    /\ pc = "call"
    /\ states_dict = NoStates
    /\ instance_list = <<>>
    /\ search_state = ""
    /\ course_listing_divs = <<>>
    /\ acc = <<>>
    /\ out = <<>>
    /\ last = Plain("none", "", "")
    /\ runs = 1

process_vars == <<pc, states_dict, instance_list, search_state,
                  course_listing_divs, acc, out, last, runs>>

\* ---- construct_unique_key(e, P1) and construct_unique_key(e, P2) ----
Endpoints == {MAPQUEST_URL, "u"}
Names == {"a", "b", "c"}
KeyValues == {StrVal("x"), StrVal("x_b_x"), IntVal(10)}

NamesOf(params) == {params[i][1] : i \in DOMAIN params}

\* insertion-ordered dictionaries of at most MaxParams parameters
ParamMaps ==
    {q \in UNION {[1..n -> Names \X KeyValues] : n \in 0..MaxParams} :
        \A i, j \in DOMAIN q : q[i][1] = q[j][1] => i = j}

InitKey ==
    /\ IdleProcess
    /\ CACHE_DICT = EmptyDict
    /\ file = NoFile
    /\ \E e \in Endpoints, P1 \in ParamMaps :
         \E P2 \in {q \in ParamMaps : NamesOf(q) = NamesOf(P1)} :
           call = [fn |-> "construct_unique_key", st |-> "pending", e |-> e,
                   P1 |-> P1, P2 |-> P2, k1 |-> "", k2 |-> ""]

BuildKeys ==
    /\ call.fn = "construct_unique_key"
    /\ call.st = "pending"
    /\ call' = [call EXCEPT !.st = "done",
                            !.k1 = construct_unique_key(call.e, call.P1),
                            !.k2 = construct_unique_key(call.e, call.P2)]
    /\ UNCHANGED <<process_vars, CACHE_DICT, file>>

NextKey == BuildKeys

SpecKey == InitKey /\ [][NextKey]_vars

\* ---- save_cache(M) followed by open_cache() ----
SEARCH_KEY_49931 ==
    construct_unique_key(MAPQUEST_URL, nearby_params(site_of_page(IsroPage).value))

StoreValues == {IndexPage, SearchJson(<<CafeX>>)}

Mappings ==
    UNION {[K -> StoreValues] : K \in SUBSET {INDEX_URL, SEARCH_KEY_49931}}

StoreFiles ==
    {NoFile, FileOf(<<>>), FileOf(<<Ws>>), FileOf(<<Junk>>)}
    \cup {FileOf(<<Doc(m)>>) : m \in Mappings}

InitStore ==
    /\ IdleProcess
    /\ CACHE_DICT = EmptyDict
    /\ file \in StoreFiles
    /\ \E M \in Mappings :
         call = [fn |-> "save_cache", st |-> "pending", M |-> M, prior |-> file,
                 loaded |-> EmptyDict]

SaveCall ==
    /\ call.fn = "save_cache"
    /\ call.st = "pending"
    /\ file' = save_cache(file, call.M)
    /\ call' = [call EXCEPT !.st = "saved"]
    /\ UNCHANGED <<process_vars, CACHE_DICT>>

OpenCall ==
    /\ call.fn = "save_cache"
    /\ call.st = "saved"
    /\ call' = [call EXCEPT !.st = "done", !.loaded = open_cache(file).value]
    /\ UNCHANGED <<process_vars, CACHE_DICT, file>>

NextStore == SaveCall \/ OpenCall

SpecStore == InitStore /\ [][NextStore]_vars

\* ---- print_nearby_places(site) on a searchResults array ----
FieldNames == {"", "Cafe X"}
FieldAddresses == {"", "1 Dock St"}
FieldCities == {"", "Houghton"}
FieldCategories == {"", "Restaurant"}

Items == {Item(n, a, c, g) : n \in FieldNames, a \in FieldAddresses,
                             c \in FieldCities, g \in FieldCategories}

ResultLists == UNION {[1..n -> Items] : n \in 0..MaxResults}

IsroSite == site_of_page(IsroPage).value

InitPlaces ==
    /\ IdleProcess
    /\ file = NoFile
    /\ \E results \in ResultLists, cached \in BOOLEAN :
         /\ CACHE_DICT = IF cached
                         THEN Put(EmptyDict, SEARCH_KEY_49931, SearchJson(results))
                         ELSE EmptyDict
         /\ call = [fn |-> "print_nearby_places", st |-> "pending",
                    results |-> results, lines |-> <<>>]

PrintCall ==
    /\ call.fn = "print_nearby_places"
    /\ call.st = "pending"
    /\ LET o == print_nearby_places(CACHE_DICT, file, IsroSite,
                                    Ok(SearchJson(call.results)))
       IN  /\ CACHE_DICT' = o.cache
           /\ file' = o.file
           /\ call' = [call EXCEPT !.st = "done", !.lines = o.printed]
    /\ UNCHANGED process_vars

NextPlaces == PrintCall

SpecPlaces == InitPlaces /\ [][NextPlaces]_vars

\* ---- build_state_url_dict() and get_site_instance(url), called directly
\* ---- by a caller that catches what they raise
FetchFiles ==
    {NoFile, FileOf(<<Junk>>), FileOf(<<Doc(Put(EmptyDict, INDEX_URL, IndexPage))>>)}

InitFetch ==
    /\ IdleProcess
    /\ file \in FetchFiles
    /\ CACHE_DICT = open_cache(file).value
    /\ call = [fn |-> "fetch", n |-> 0, obs |-> Plain("none", "", ""),
               failed |-> {}]

\* failed collects the keys whose page could not be parsed
AfterFetch(op, o, r) ==
    /\ CACHE_DICT' = o.cache
    /\ file' = o.file
    /\ call' = [call EXCEPT !.n = call.n + 1,
                            !.obs = ObsOf(op, "", o, r),
                            !.failed = IF o.exc = "AttributeError"
                                       THEN call.failed \cup {o.key}
                                       ELSE call.failed]
    /\ UNCHANGED process_vars

IndexCall ==
    /\ call.fn = "fetch"
    /\ call.n < MaxCalls
    /\ \E r \in Responses(INDEX_URL) :
         AfterFetch("build_state_url_dict",
                    build_state_url_dict(CACHE_DICT, file, r), r)

SiteCall ==
    /\ call.fn = "fetch"
    /\ call.n < MaxCalls
    /\ \E site_url \in {ISRO_URL, KEWE_URL} :
         \E r \in Responses(site_url) :
           AfterFetch("get_site_instance",
                      get_site_instance(CACHE_DICT, file, site_url, r), r)

NextFetch == IndexCall \/ SiteCall

SpecFetch == InitFetch /\ [][NextFetch]_vars

\* ---- the number prompt (lines 277-293) after a state with n sites was
\* ---- listed: the index page and the n site pages were fetched in this run
ParkUrl(i) == NPS \o "/park" \o ToString(i) \o "/" \o "index.htm"

ParkPage(i) ==
    SitePage(SiteElements, "Park " \o ToString(i), "National Park", "Houghton",
             "MI", "49931", "906-482-0984")

\* CACHE_DICT after the index page and the first j site pages were stored
CacheAfter(j) ==
    [u \in {INDEX_URL} \cup {ParkUrl(i) : i \in 1..j} |->
        IF u = INDEX_URL THEN IndexPage
        ELSE ParkPage(CHOOSE i \in 1..j : ParkUrl(i) = u)]

InitSelect ==
    /\ pc = "num_prompt"
    /\ \E n \in 0..MaxSites :
         /\ CACHE_DICT = CacheAfter(n)
         /\ file = FileOf([j \in 1..(n + 1) |-> Doc(CacheAfter(j - 1))])
         /\ course_listing_divs = [i \in 1..n |-> ParkUrl(i)]
         /\ acc = [i \in 1..n |-> site_of_page(ParkPage(i)).value]
         /\ instance_list = acc
    /\ states_dict = state_loop(NoStates, IndexPage.items, 1)
    /\ search_state = "Michigan"
    /\ out = list_lines(search_state, instance_list)
    /\ last = Plain("return_sites", "", "")
    /\ runs = MaxRuns
    /\ call = NoCall

NextSelect == ExitAtNum \/ Back \/ NotANumber \/ OutOfRange \/ Select

SpecSelect == InitSelect /\ [][NextSelect]_vars

(***************************************************************************)
(* Properties.                                                             *)
(***************************************************************************)
CachedOps == {"build_state_url_dict", "get_site_instance", "get_nearby_places"}

\* the key get_nearby_places builds for the site the input enter_num selects
NearbyKey(enter_num) ==
    construct_unique_key(MAPQUEST_URL,
                         nearby_params(instance_list[IntTable[enter_num]]))

\* the step ran the cached operation on a key k that was present
HitEffect(k) ==
    /\ last'.requests = <<>>
    /\ last'.used = CACHE_DICT[k]
    /\ CACHE_DICT' = CACHE_DICT
    /\ file' = file

\* C1: a cached operation that starts with its key in CACHE_DICT uses the
\* stored payload, issues no request and writes neither the dictionary nor
\* the file.
C1_CacheHitNoNetwork ==
    [][ /\ (pc = "build" /\ INDEX_URL \in DOMAIN CACHE_DICT)
           => HitEffect(INDEX_URL)
        /\ (pc = "sites" /\ Len(acc) < Len(course_listing_divs)
              /\ course_listing_divs[Len(acc) + 1] \in DOMAIN CACHE_DICT)
           => HitEffect(course_listing_divs[Len(acc) + 1])
        /\ (pc = "num_prompt" /\ last'.op = "get_nearby_places"
              /\ NearbyKey(last'.input) \in DOMAIN CACHE_DICT)
           => HitEffect(NearbyKey(last'.input)) ]_vars

\* build_state_url_dict found the index page in a cache loaded from the file
C1_Witness ==
    /\ last.op = "build_state_url_dict"
    /\ runs = 2
    /\ INDEX_URL \in DOMAIN CACHE_DICT
    /\ last.requests = <<>>
    /\ last.used = CACHE_DICT[INDEX_URL]

\* the step ran the cached operation on an absent key k, requesting url, and
\* the request gave a payload
MissEffect(k, url) ==
    (last'.resp.status = "ok" /\ (url = MAPQUEST_URL => last'.resp.body.kind = "json"))
    => /\ last'.requests = <<url>>
       /\ k \in DOMAIN CACHE_DICT'
       /\ CACHE_DICT'[k] = last'.resp.body
       /\ last'.used = last'.resp.body

\* C2: a cached operation that starts without its key and whose request
\* succeeds issues exactly one request, and ends with the key in CACHE_DICT
\* mapped to the payload the request returned, which is the payload it uses.
C2_CacheMissFetchesOnceAndStores ==
    [][ /\ (pc = "build" /\ INDEX_URL \notin DOMAIN CACHE_DICT)
           => MissEffect(INDEX_URL, INDEX_URL)
        /\ (pc = "sites" /\ Len(acc) < Len(course_listing_divs)
              /\ course_listing_divs[Len(acc) + 1] \notin DOMAIN CACHE_DICT)
           => MissEffect(course_listing_divs[Len(acc) + 1],
                         course_listing_divs[Len(acc) + 1])
        /\ (pc = "num_prompt" /\ last'.op = "get_nearby_places"
              /\ NearbyKey(last'.input) \notin DOMAIN CACHE_DICT)
           => MissEffect(NearbyKey(last'.input), MAPQUEST_URL) ]_vars

\* get_nearby_places fetched a search response and stored it
C2_Witness ==
    /\ last.op = "get_nearby_places"
    /\ ~last.hit
    /\ last.requests = <<MAPQUEST_URL>>
    /\ last.resp = Ok(SearchJson(<<CafeX, Dock>>))
    /\ last.key \in DOMAIN CACHE_DICT
    /\ CACHE_DICT[last.key] = SearchJson(<<CafeX, Dock>>)

\* the file holds only documents that save_cache wrote (it was missing, or
\* held one valid document, when the writes began)
OnlyDocuments(f) ==
    ~f.exists \/ (f.readable /\ \A i \in DOMAIN f.content : f.content[i].tok = "doc")

\* C3: after every cache write the file holds exactly one document, the
\* dump of the current CACHE_DICT (never two concatenated documents).
C3_FileIsOneDocument ==
    [][ (file' # file /\ OnlyDocuments(file))
        => file'.content = <<Doc(CACHE_DICT')>> ]_vars

\* C4: save_cache(M) followed by open_cache() gives M back, whatever the
\* file held before.
C4_RoundTrip ==
    (call.fn = "save_cache" /\ call.st = "done") => call.loaded = call.M

\* P holds the name/value pairs of Q
SamePairs(P, Q) == {P[i] : i \in DOMAIN P} = {Q[i] : i \in DOMAIN Q}

\* C5: two parameter dictionaries with the same name/value pairs, inserted
\* in different orders, give the same key.
C5_KeyIgnoresInsertionOrder ==
    (call.fn = "construct_unique_key" /\ call.st = "done"
       /\ SamePairs(call.P1, call.P2))
    => call.k1 = call.k2

\* the value P gives to the name n
ValueOf(P, n) == (CHOOSE i \in DOMAIN P : P[i][1] = n)

\* P and Q have the same names, string values, and differ in some value
DifferInAValue(P, Q) ==
    /\ NamesOf(P) = NamesOf(Q)
    /\ \A i \in DOMAIN P : P[i][2].t = "str"
    /\ \A i \in DOMAIN Q : Q[i][2].t = "str"
    /\ \E n \in NamesOf(P) : P[ValueOf(P, n)][2] # Q[ValueOf(Q, n)][2]

\* C6: two parameter dictionaries that differ in at least one value (a
\* string, which may contain "_") give different keys.
C6_KeysSeparateRequests ==
    (call.fn = "construct_unique_key" /\ call.st = "done"
       /\ DifferInAValue(call.P1, call.P2))
    => call.k1 # call.k2

\* the file is missing, unreadable, or is not one document
NotOneDocument(f) ==
    \/ ~f.exists
    \/ ~f.readable
    \/ Len(SelectSeq(f.content, LAMBDA c : c.tok # "ws")) # 1
    \/ \E i \in DOMAIN f.content : f.content[i].tok = "junk"

\* C7: open_cache raises nothing, so start-up goes on to line 264, and from
\* a missing, unreadable or unparsable file it returns the empty dictionary.
C7_LoadNeverFails ==
    last.op = "open_cache"
    => /\ pc = "build"
       /\ last.exc = ""
       /\ NotOneDocument(file) => CACHE_DICT = EmptyDict

\* the process started on a file that holds two concatenated documents
C7_Witness ==
    /\ last.op = "open_cache"
    /\ pc = "build"
    /\ file.exists /\ file.readable
    /\ Len(file.content) >= 2
    /\ \A i \in DOMAIN file.content : file.content[i].tok = "doc"
    /\ CACHE_DICT = EmptyDict

\* the line the claim describes for one search result
ExpectedLine(item) ==
    LET f == item.fields
    IN  "- " \o f.name \o " ("
        \o (IF f.group_sic_code_name_ext = "" THEN "no category"
            ELSE f.group_sic_code_name_ext)
        \o "): " \o (IF f.address = "" THEN "no address" ELSE f.address)
        \o ", " \o (IF f.city = "" THEN "no city" ELSE f.city)

\* C8: print_nearby_places prints, after "Fetching" or "Using Cache" and the
\* three header lines, one line per search result in the order of the
\* array; an empty category, address or city shows as its placeholder,
\* other fields and the name (empty or not) show unchanged.
C8_Placeholders ==
    (call.fn = "print_nearby_places" /\ call.st = "done")
    => /\ Len(call.lines) = 4 + Len(call.results)
       /\ \A i \in DOMAIN call.results :
             call.lines[4 + i] = ExpectedLine(call.results[i])

\* two results were printed, one with an empty name and an empty city
C8_Witness ==
    /\ call.fn = "print_nearby_places"
    /\ call.st = "done"
    /\ Len(call.results) = 2
    /\ call.results[1] = Item("Cafe X", "", "Houghton", "Restaurant")
    /\ call.results[2] = Item("", "1 Dock St", "", "")
    /\ call.lines[5] = "- Cafe X (Restaurant): no address, Houghton"
    /\ call.lines[6] = "-  (no category): 1 Dock St, no city"

\* C9: get_sites_for_state returns a list only when the state page, every
\* detail page and every extraction succeeded: a returned list has one site
\* per entry of the page, each from a page that has all its elements; a
\* failure inside the operation ends it with the exception, and the list of
\* __main__ is not assigned.
C9_NoPartialResults ==
    [][ /\ (instance_list' # instance_list /\ pc' # "start")
           => /\ pc = "sites"
              /\ Len(instance_list') = Len(course_listing_divs)
              /\ \A i \in DOMAIN course_listing_divs :
                    /\ course_listing_divs[i] \in DOMAIN CACHE_DICT'
                    /\ SiteElements \subseteq CACHE_DICT'[course_listing_divs[i]].has
        /\ (pc \in {"state_prompt", "sites"} /\ last'.exc # "")
           => /\ pc' = "crashed"
              /\ instance_list' = instance_list ]_vars

\* the second detail page could not be fetched after the first was processed
C9_Witness ==
    /\ pc = "crashed"
    /\ last.op = "get_site_instance"
    /\ last.exc = "ConnectionError"
    /\ Len(acc) = 1
    /\ Len(course_listing_divs) = 2
    /\ instance_list = <<>>

ExitWords == {"exit", "EXIT"}

\* the process was in the command loop and has ended
EndedFromLoop ==
    /\ pc \in {"exited", "crashed"}
    /\ last.op \notin {"none", "open_cache", "build_state_url_dict"}

\* C10 as stated: the process ends from the loop only on the input "exit".
C10_EndsOnlyOnExit ==
    EndedFromLoop => last.input \in ExitWords

\* the input s, read at the prompt pc, is an input error
InputError(s) ==
    \/ /\ pc = "state_prompt"
       /\ lower(s) \notin DOMAIN states_dict
       /\ s \notin ExitWords
    \/ /\ pc = "num_prompt"
       /\ s \notin ExitWords
       /\ lower(s) # "back"
       /\ \/ s \notin DOMAIN IntTable
          \/ ~(IntTable[s] \in 1..Len(instance_list))

\* C10 as amended: an input error prints an error message and leaves the
\* loop at the same prompt; sys.exit is reached exactly on "exit" in any
\* letter case; the loop otherwise ends only with an exception that a fetch
\* or an extraction raised for a known state or a listed number.
C10_InputErrorsKeepLoop ==
    /\ [][ (pc \in {"state_prompt", "num_prompt"})
           => /\ InputError(last'.input)
                 => /\ pc' = pc
                    /\ out' = <<IF pc = "state_prompt"
                                THEN "[Error] Enter proper state name"
                                ELSE "[Error] Invalid input">>
                    /\ UNCHANGED <<CACHE_DICT, file, instance_list>>
              /\ (last'.input \in ExitWords) <=> (pc' = "exited")
              /\ pc' = "crashed"
                 => /\ last'.op \in {"get_sites_for_state", "get_nearby_places"}
                    /\ last'.exc \in {"ConnectionError", "AttributeError", "KeyError"}
                    /\ ~InputError(last'.input) ]_vars
    /\ [][ (pc = "sites" /\ pc' # "sites")
           => \/ pc' = "num_prompt"
              \/ /\ pc' = "crashed"
                 /\ last'.op = "get_site_instance"
                 /\ last'.exc \in {"ConnectionError", "AttributeError"} ]_vars

\* a number beyond the list was entered and the loop stays at the prompt
C10_Witness ==
    /\ pc = "num_prompt"
    /\ last.op = "out_of_range"
    /\ last.input = "3"
    /\ Len(instance_list) = 2
    /\ out = <<"[Error] Invalid input">>


\* what the claim expects of the summaries for the state that was entered:
\* the Michigan page lists /isro/ then /kewe/, the Ohio page lists nothing
ExpectedSummaries(state_name) ==
    IF state_name = "Michigan"
    THEN <<"Isle Royale (National Park): Houghton, MI 49931",
           "Keweenaw (): Calumet, MI 49913">>
    ELSE <<>>

\* C11: the list get_sites_for_state returns has one site per entry of the
\* state page, in document order, and info() of each is
\* "<name> (<category>): <city>, <region> <postal code>" with the trimmed
\* fields of the entry's detail page.
C11_OneSitePerEntry ==
    last.op = "return_sites"
    => /\ Len(instance_list) = Len(course_listing_divs)
       /\ [i \in DOMAIN instance_list |-> info(instance_list[i])]
            = ExpectedSummaries(search_state)

\* the Michigan list was returned, Isle Royale first
C11_Witness ==
    /\ last.op = "return_sites"
    /\ search_state = "Michigan"
    /\ Len(instance_list) = 2
    /\ info(instance_list[1]) = "Isle Royale (National Park): Houghton, MI 49931"
    /\ out[4] = "[1] Isle Royale (National Park): Houghton, MI 49931"


\* the dictionary the last save_cache of the earlier runs dumped: it holds
\* every key those runs wrote, with its payload
LastDump(f) == f.content[Len(f.content)].val

\* C12: every key a run wrote is present, with the same payload, in the
\* dictionary open_cache returns at the next start.  (The file was missing
\* at the first start, so it holds only what save_cache wrote.)
C12_EntriesSurviveRestart ==
    (last.op = "open_cache" /\ runs >= 2 /\ OnlyDocuments(file)
       /\ file.content # <<>>)
    => \A k \in DOMAIN LastDump(file) :
          /\ k \in DOMAIN CACHE_DICT
          /\ CACHE_DICT[k] = LastDump(file)[k]


\* the URLs of the state pages
StateUrls == {MI_URL, OH_URL}

\* C13: every get_sites_for_state requests the state URL, whatever the cache
\* holds, and leaves the dictionary and the file alone on that fetch; the
\* state URL never becomes a key; only the key of the detail page being
\* visited can be added while the operation runs.
C13_StatePageBypassesCache ==
    [][ /\ (pc = "state_prompt" /\ last'.op = "get_sites_for_state")
           => /\ last'.requests = <<states_dict[lower(last'.input)]>>
              /\ states_dict[lower(last'.input)] \in StateUrls
              /\ CACHE_DICT' = CACHE_DICT
              /\ file' = file
        /\ (pc = "sites" /\ Len(acc) < Len(course_listing_divs))
           => (DOMAIN CACHE_DICT') \ (DOMAIN CACHE_DICT)
                 \subseteq {course_listing_divs[Len(acc) + 1]}
        /\ \A u \in StateUrls : u \notin DOMAIN CACHE_DICT' ]_vars

\* the Michigan page is requested again although its site pages are cached
C13_Witness ==
    /\ last.op = "get_sites_for_state"
    /\ pc = "sites"
    /\ last.requests = <<MI_URL>>
    /\ {ISRO_URL, KEWE_URL} \subseteq DOMAIN CACHE_DICT
    /\ MI_URL \notin DOMAIN CACHE_DICT


\* the page lacks something the extraction reads
Unparsable(page) ==
    IF page.page = "index" THEN ~page.menu ELSE ~(SiteElements \subseteq page.has)

Digits == <<"0", "1", "2", "3", "4", "5", "6", "7", "8", "9">>

\* decimal text of a natural number
RECURSIVE Decimal(_)
Decimal(n) ==
    IF n < 10 THEN Digits[n + 1] ELSE Decimal(n \div 10) \o Digits[(n % 10) + 1]

Rendered(v) == IF v.t = "int" THEN Decimal(v.i) ELSE v.s

\* "_name_value" for each parameter, first inserted first
RECURSIVE KeySuffix(_)
KeySuffix(P) ==
    IF P = <<>> THEN ""
    ELSE "_" \o Head(P)[1] \o "_" \o Rendered(Head(P)[2]) \o KeySuffix(Tail(P))

\* C15: construct_unique_key returns the endpoint followed, for each
\* parameter in insertion order, by "_", the name, "_" and the value's text;
\* with no parameters the key is the endpoint alone, and the call always
\* returns.
C15_KeyFormat ==
    [][ (call.fn = "construct_unique_key" /\ call.st = "pending")
        => /\ call'.st = "done"
           /\ call'.k1 = call.e \o KeySuffix(call.P1)
           /\ call'.k2 = call.e \o KeySuffix(call.P2)
           /\ call.P1 = <<>> => call'.k1 = call.e ]_vars

\* a key built from two parameters, "b" inserted before "a"
C15_Witness ==
    /\ call.fn = "construct_unique_key"
    /\ call.st = "done"
    /\ call.e = "u"
    /\ call.P1 = <<(<<"b", IntVal(10)>>), (<<"a", StrVal("x")>>)>>
    /\ call.k1 = "u_b_10_a_x"


\* the request of the step raised, or its search response is not JSON
FetchFailed(o) ==
    /\ o.op \in CachedOps
    /\ \/ o.resp.status = "neterr"
       \/ /\ o.op = "get_nearby_places"
          /\ o.resp.status = "ok"
          /\ o.resp.body.kind # "json"

\* C16: when the request of a cached operation raises, or the search
\* response cannot be decoded, the operation raises to its caller after that
\* one request, and CACHE_DICT and the file are as they were before it.
C16_FailedFetchLeavesCache ==
    [][ FetchFailed(last')
        => /\ last'.exc = IF last'.resp.status = "neterr"
                          THEN "ConnectionError" ELSE "ValueError"
           /\ Len(last'.requests) = 1
           /\ last'.used = NoPayload
           /\ CACHE_DICT' = CACHE_DICT
           /\ file' = file
           /\ last'.exc = "ConnectionError" => pc' = "crashed" ]_vars

\* a search whose response was not JSON, made with pages already cached
C16_Witness ==
    /\ last.op = "get_nearby_places"
    /\ last.resp = Ok(NotJson)
    /\ last.exc = "ValueError"
    /\ last.requests = <<MAPQUEST_URL>>
    /\ last.key \notin DOMAIN CACHE_DICT
    /\ ISRO_URL \in DOMAIN CACHE_DICT


\* the step belongs to one run: it is neither the load nor a new start
InRun == pc # "start" /\ pc' # "start"

\* C17: within a run, after open_cache, no step removes a key of CACHE_DICT
\* or changes the payload of a key that is present; a step adds at most the
\* key of its operation, which was absent.
C17_CacheOnlyGrows ==
    [][ InRun
        => /\ \A k \in DOMAIN CACHE_DICT :
                k \in DOMAIN CACHE_DICT' /\ CACHE_DICT'[k] = CACHE_DICT[k]
           /\ (DOMAIN CACHE_DICT') \ (DOMAIN CACHE_DICT) \subseteq {last'.key}
           /\ CACHE_DICT' # CACHE_DICT => ~last'.hit ]_vars

\* a search response stored next to the three pages fetched before it
C17_Witness ==
    /\ pc = "num_prompt"
    /\ last.op = "get_nearby_places"
    /\ ~last.hit
    /\ last.exc = ""
    /\ DOMAIN CACHE_DICT = {INDEX_URL, ISRO_URL, KEWE_URL, last.key}
    /\ CACHE_DICT[INDEX_URL] = IndexPage
    /\ CACHE_DICT[KEWE_URL] = KewePage


\* the list printed for instance_list has a line for the site numbered n
PrintedNumber(n) ==
    \E i \in DOMAIN list_lines(search_state, instance_list) :
       list_lines(search_state, instance_list)[i]
         = "[" \o ToString(n) \o "] " \o info(instance_list[n])

\* C18: a number the loop accepts, running the nearby-places search, is the
\* number of a site that the printed list shows; any other number gets the
\* invalid-input message and no search.
C18_AcceptedWasPrinted ==
    [][ (pc = "num_prompt" /\ last'.op \in {"get_nearby_places", "out_of_range"})
        => /\ last'.op = "get_nearby_places"
              => PrintedNumber(int(last'.input).value)
           /\ last'.op = "out_of_range"
              => /\ ~(/\ int(last'.input).value \in DOMAIN instance_list
                      /\ PrintedNumber(int(last'.input).value))
                 /\ out' = <<"[Error] Invalid input">>
                 /\ last'.requests = <<>> ]_vars

====
